---- MODULE Spec2Model ----
(***************************************************************************)
(* A model of jmc_flame_graph.py: the parser that rebuilds a call forest   *)
(* from the indented lines of a JMC call-tree report, the renderer that    *)
(* lays the forest out as a flame graph, zooming, and the colour rules.    *)
(*                                                                         *)
(* Strings are sequences of one-character strings.  A CallTreeNode lives   *)
(* in `heap` and is named by its index there (object identity); a list of  *)
(* nodes is a sequence of such indices.                                    *)
(*                                                                         *)
(* The renderer computes with Python floats.  Here every coordinate is the *)
(* exact rational it stands for: x_scale and y_scale are kept as num/den,  *)
(* an x coordinate as a numerator over x_scale.den = call_forest.samples() *)
(* and a y coordinate as a numerator over y_scale.den =                    *)
(* call_forest.depth().  IEEE rounding is not modelled: what is shown of   *)
(* the geometry holds of the doubles up to their rounding error.  Text     *)
(* items, tooltips and fonts (Tk) are left out: the canvas holds the       *)
(* rectangles only.                                                        *)
(***************************************************************************)
EXTENDS Integers, Sequences, FiniteSets, Bags, TLC

VARIABLES
    file,         \* the lines of the report file named by sys.argv[1]
    pos,          \* how many lines parse() has handed to process_line
    heap,         \* every CallTreeNode constructed so far
    stack,        \* JmcCallForestParser.stack.stack (node ids)
    call_forest,  \* JmcCallForestParser.call_forest
    renderers,    \* the live TkFlameGraphRenderer objects (a bag of records)
    pc,           \* where main() is: "parse", "mainloop" or "exit"
    error         \* the last exception raised: "none" or its class name

vars == <<file, pos, heap, stack, call_forest, renderers, pc, error>>

\* ---------------------------------------------------------------- bounds

\* lines in a report of the parser runs
MaxLines == 4
\* leading spaces of a line in the parser runs
MaxIndent == 6
\* lines (nodes) in a report of the layout runs
MaxNodes == 3
\* largest sample count of a line in the layout runs
MaxSamples == 1
\* zoom windows opened in one run
MaxZoom == 2
\* characters appended to a rule prefix in the colour runs
MaxExt == 1

\* ------------------------------------------------------- program constants

INDENT_SPACES == 3
WIDTH == 1200
HEIGHT == 800
\* render() starts the first root at x = 2.0
X_START == 2

\* ---------------------------------------------------------------- strings

Min(a, b) == IF a < b THEN a ELSE b

Letters ==
    <<"a", "b", "c", "d", "e", "f", "g", "h", "i", "j", "k", "l", "m",
      "n", "o", "p", "q", "r", "s", "t", "u", "v", "w", "x", "y", "z">>

Digits == <<"0", "1", "2", "3", "4", "5", "6", "7", "8", "9">>

Whitespace == {" ", "\t", "\n"}

\* the byte value Python 2 compares str characters by
Ord(c) ==
    IF c = "." THEN 46
    ELSE IF \E i \in 1..Len(Letters) : Letters[i] = c
         THEN 96 + (CHOOSE i \in 1..Len(Letters) : Letters[i] = c)
    ELSE IF \E i \in 1..Len(Digits) : Digits[i] = c
         THEN 47 + (CHOOSE i \in 1..Len(Digits) : Digits[i] = c)
    ELSE 32

\* a < b for Python 2 str: the first differing byte decides, a proper prefix is less
StrLess(a, b) ==
    LET n == Min(Len(a), Len(b))
        diff == {i \in 1..n : a[i] # b[i]}
    IN IF diff = {} THEN Len(a) < Len(b)
       ELSE LET i == CHOOSE k \in diff : \A j \in diff : k <= j
            IN Ord(a[i]) < Ord(b[i])

\* s.startswith(prefix)
StartsWith(s, prefix) ==
    /\ Len(prefix) <= Len(s)
    /\ SubSeq(s, 1, Len(prefix)) = prefix

\* line.split('\t')
RECURSIVE Split(_)
Split(s) ==
    LET tabs == {i \in 1..Len(s) : s[i] = "\t"}
    IN IF tabs = {} THEN <<s>>
       ELSE LET i == CHOOSE k \in tabs : \A j \in tabs : k <= j
            IN <<SubSeq(s, 1, i - 1)>> \o Split(SubSeq(s, i + 1, Len(s)))

\* s.lstrip()
RECURSIVE LStrip(_)
LStrip(s) ==
    IF s # <<>> /\ s[1] \in Whitespace THEN LStrip(Tail(s)) ELSE s

\* s.rstrip(), as int() ignores surrounding whitespace
RECURSIVE RStrip(_)
RStrip(s) ==
    IF s # <<>> /\ s[Len(s)] \in Whitespace
    THEN RStrip(SubSeq(s, 1, Len(s) - 1)) ELSE s

\* s.replace(',', '')
RECURSIVE RemoveCommas(_)
RemoveCommas(s) ==
    IF s = <<>> THEN <<>>
    ELSE IF Head(s) = "," THEN RemoveCommas(Tail(s))
    ELSE <<Head(s)>> \o RemoveCommas(Tail(s))

DigitValue(c) == (CHOOSE i \in 1..Len(Digits) : Digits[i] = c) - 1

\* int(s) for a string of decimal digits with surrounding whitespace
RECURSIVE DecimalValue(_)
DecimalValue(s) ==
    IF s = <<>> THEN 0
    ELSE 10 * DecimalValue(SubSeq(s, 1, Len(s) - 1)) + DigitValue(s[Len(s)])

PyInt(s) == DecimalValue(RStrip(LStrip(s)))

\* ------------------------------------------------------------------ model

\* CallTreeNode.__init__
CallTreeNode(signature, samples) ==
    [signature |-> signature, samples |-> samples, children |-> <<>>]

\* add_child with the new child put first (insert(0, ...) for append)
add_child_front(h, parent, ctn) ==
    [h EXCEPT ![parent].children = <<ctn>> \o @]

\* CallTreeNode.add_child, on the node stored at heap index parent
add_child(h, parent, ctn) ==
    [h EXCEPT ![parent].children = Append(@, ctn)]

RECURSIVE MaxOf(_)
MaxOf(s) ==
    IF s = <<>> THEN 0
    ELSE LET m == MaxOf(Tail(s)) IN IF Head(s) > m THEN Head(s) ELSE m

\* CallTreeNode.depth: 1 + max([c.depth() for c in self.children] or [0])
RECURSIVE CallTreeNode_depth(_)
CallTreeNode_depth(n) ==
    1 + MaxOf([i \in 1..Len(heap[n].children) |->
                    CallTreeNode_depth(heap[n].children[i])])

\* CallForest.__init__
CallForest(name) == [name |-> name, roots |-> <<>>]

\* CallForest.add_root
add_root(cf, ctn) == [cf EXCEPT !.roots = Append(@, ctn)]

RECURSIVE SumOf(_)
SumOf(s) == IF s = <<>> THEN 0 ELSE Head(s) + SumOf(Tail(s))

\* CallForest.samples: sum([r.samples for r in self.roots])
CallForest_samples(cf) ==
    SumOf([i \in 1..Len(cf.roots) |-> heap[cf.roots[i]].samples])

\* CallForest.depth with one added to the maximum, as CallTreeNode.depth does
CallForest_depth_plus_one(cf) ==
    1 + MaxOf([i \in 1..Len(cf.roots) |-> CallTreeNode_depth(cf.roots[i])])

\* CallForest.depth: max([r.depth() for r in self.roots] or [0])
CallForest_depth(cf) ==
    MaxOf([i \in 1..Len(cf.roots) |-> CallTreeNode_depth(cf.roots[i])])

\* ----------------------------------------------------------------- parser

\* JmcCallTreeLine.__init__
chunks(line) == Split(line)

\* JmcCallTreeLine.signature
signature(line) == LStrip(chunks(line)[1])

\* JmcCallTreeLine.indentation
indentation(line) == Len(chunks(line)[1]) - Len(signature(line))

\* JmcCallTreeLine.depth_below_root (Python 2: / on ints is floor division)
depth_below_root(line) == indentation(line) \div INDENT_SPACES

\* JmcCallTreeLine.samples
samples(line) == PyInt(RemoveCommas(chunks(line)[2]))

\* JmcCallTreeLine.create_call_tree_node
create_call_tree_node(line) == CallTreeNode(signature(line), samples(line))

\* CallTreeNodeStack.push
push(s, ctn) == Append(s, ctn)

\* CallTreeNodeStack.top, defined when the stack is not empty
top(s) == s[Len(s)]

\* drop_to off by one: self.stack[:depth + 1]
drop_to_keep_one_more(s, depth) == SubSeq(s, 1, Min(depth + 1, Len(s)))

\* CallTreeNodeStack.drop_to: self.stack[:depth]
drop_to(s, depth) == SubSeq(s, 1, Min(depth, Len(s)))

\* ---------------------------------------------------------------- colours

oracle == <<"o", "r", "a", "c", "l", "e">>
org_springframework ==
    <<"o", "r", "g", ".", "s", "p", "r", "i", "n", "g",
      "f", "r", "a", "m", "e", "w", "o", "r", "k">>
java_io == <<"j", "a", "v", "a", ".", "i", "o">>
com_google == <<"c", "o", "m", ".", "g", "o", "o", "g", "l", "e">>
org_jboss == <<"o", "r", "g", ".", "j", "b", "o", "s", "s">>

\* Colours.__init__
prefix_to_colour ==
    << [prefix |-> oracle, colour |-> "yellow"],
       [prefix |-> org_springframework, colour |-> "spring green"],
       [prefix |-> java_io, colour |-> "orange"],
       [prefix |-> com_google, colour |-> "gray"],
       [prefix |-> org_jboss, colour |-> "red"] >>

\* the loop of Colours.colour_for over the rules still to try
RECURSIVE colour_scan(_, _)
colour_scan(rules, sig) ==
    IF rules = <<>> THEN "white"
    ELSE IF StartsWith(sig, Head(rules).prefix) THEN Head(rules).colour
    ELSE colour_scan(Tail(rules), sig)

\* colour_for with startswith the wrong way round: prefix.startswith(signature)
colour_for_swapped(n) ==
    LET sig == heap[n].signature
        hit == {i \in 1..Len(prefix_to_colour) :
                    StartsWith(prefix_to_colour[i].prefix, sig)}
    IN IF hit = {} THEN "white"
       ELSE prefix_to_colour[CHOOSE i \in hit : \A j \in hit : i <= j].colour

\* Colours.colour_for
colour_for(n) == colour_scan(prefix_to_colour, heap[n].signature)

\* --------------------------------------------------------------- renderer

\* sorted(nodes, key=lambda n: n.signature): stable, ascending
RECURSIVE SortedBySignature(_)
SortedBySignature(ns) ==
    IF ns = <<>> THEN <<>>
    ELSE LET rest == SortedBySignature(SubSeq(ns, 1, Len(ns) - 1))
             n == ns[Len(ns)]
             \* n goes after every element that is not greater than it
             keep == {i \in 1..Len(rest) :
                        StrLess(heap[n].signature, heap[rest[i]].signature)}
             k == IF keep = {} THEN Len(rest) + 1
                  ELSE CHOOSE i \in keep : \A j \in keep : i <= j
         IN SubSeq(rest, 1, k - 1) \o <<n>> \o SubSeq(rest, k, Len(rest))

\* TkFlameGraphRenderer.__init__ raises ZeroDivisionError at
\* float(width) / call_forest.samples() or float(height) / call_forest.depth()
InitRaises(cf) == CallForest_samples(cf) = 0 \/ CallForest_depth(cf) = 0

\* TkFlameGraphRenderer.__init__; x_scale and y_scale are the exact quotients
TkFlameGraphRenderer(cf, width, height) ==
    [call_forest |-> cf, width |-> width, height |-> height,
     x_scale |-> [num |-> width, den |-> CallForest_samples(cf)],
     y_scale |-> [num |-> height, den |-> CallForest_depth(cf)],
     canvas |-> <<>>]

\* bounding_box with the node's samples left out of the width
bounding_box_unit_width(r, node, x, y) ==
    [left |-> x, top |-> y,
     right |-> x + r.x_scale.num,
     bottom |-> y + r.y_scale.num]

\* TkFlameGraphRenderer.bounding_box; x in units of 1/x_scale.den, y in units
\* of 1/y_scale.den
bounding_box(r, node, x, y) ==
    [left |-> x, top |-> y,
     right |-> x + r.x_scale.num * heap[node].samples,
     bottom |-> y + r.y_scale.num]

\* TkFlameGraphRenderer.render_call_tree_node: the rectangle put on the canvas,
\* with its fill and the node its events are bound to
render_call_tree_node(r, node, x, y) ==
    [bbox |-> bounding_box(r, node, x, y), fill |-> colour_for(node),
     node |-> node]

\* TkFlameGraphRenderer.render_call_tree, and its loop over sorted children
\* (also the loop of render over the sorted roots)
RECURSIVE render_call_tree(_, _, _, _)
RECURSIVE render_each(_, _, _, _)
render_call_tree(r, root, x, y) ==
    <<render_call_tree_node(r, root, x, y)>>
    \o render_each(r, SortedBySignature(heap[root].children),
                   x, y - r.y_scale.num)

render_each(r, ns, x, y) ==
    IF ns = <<>> THEN <<>>
    ELSE render_call_tree(r, Head(ns), x, y)
         \o render_each(r, Tail(ns),
                        x + r.x_scale.num * heap[Head(ns)].samples, y)

\* render with the root row started at y = self.height
render_from_height(r) ==
    [r EXCEPT !.canvas =
        render_each(r, SortedBySignature(r.call_forest.roots),
                    X_START * r.x_scale.den,
                    r.height * r.y_scale.den)]

\* TkFlameGraphRenderer.render: x = 2.0, y = self.height - self.y_scale
render(r) ==
    [r EXCEPT !.canvas =
        render_each(r, SortedBySignature(r.call_forest.roots),
                    X_START * r.x_scale.den,
                    r.height * r.y_scale.den - r.y_scale.num)]

\* the nodes a renderer has bound a rectangle to
Rendered(r) == {r.canvas[i].node : i \in 1..Len(r.canvas)}

\* ------------------------------------------------------------------ files

Spaces(n) == [i \in 1..n |-> " "]

RECURSIVE ToDecimal(_)
ToDecimal(n) ==
    IF n < 10 THEN <<Digits[n + 1]>>
    ELSE ToDecimal(n \div 10) \o <<Digits[(n % 10) + 1]>>

\* one line of a report, as `for line in f` yields it
MkLine(indent, sig, count) ==
    Spaces(indent) \o sig \o <<"\t">> \o count \o <<"\n">>

Filename == <<"j", "m", "c", ".", "t", "x", "t">>

\* d lists the depths of a well-formed report: the first line is at depth 0
\* and every later line is at most one level deeper than the line before it
WellFormedDepths(d) ==
    /\ d # <<>> => d[1] = 0
    /\ \A i \in 2..Len(d) : d[i] <= d[i - 1] + 1

WellFormed(f) ==
    WellFormedDepths([i \in 1..Len(f) |-> depth_below_root(f[i])])

\* parser runs: any indentation on any line, a count with a thousands comma
ParseLines(maxIndent) ==
    {MkLine(i, <<"m">>, <<"1", ",", "0">>) : i \in 0..maxIndent}

ParseFiles(maxLines, maxIndent) ==
    UNION {[1..n -> ParseLines(maxIndent)] : n \in 0..maxLines}

\* layout runs: well-formed reports, indented by exactly 3 spaces a level
LayoutSigs == {<<"b">>, <<"a", "b">>}

LayoutLines(maxDepth, maxSamples) ==
    {MkLine(INDENT_SPACES * d, s, ToDecimal(k)) :
        d \in 0..maxDepth, s \in LayoutSigs, k \in 0..maxSamples}

RECURSIVE LayoutFilesOfLen(_, _)
LayoutFilesOfLen(n, lines) ==
    IF n = 0 THEN {<<>>}
    ELSE UNION {
           {Append(f, l) :
              l \in {m \in lines :
                       depth_below_root(m) <=
                         IF n = 1 THEN 0 ELSE depth_below_root(f[n - 1]) + 1}} :
           f \in LayoutFilesOfLen(n - 1, lines)}

LayoutFiles(maxNodes, maxSamples) ==
    UNION {LayoutFilesOfLen(n, LayoutLines(maxNodes - 1, maxSamples)) :
             n \in 0..maxNodes}

\* colour runs: one-line reports whose signature is the start of a rule's
\* prefix followed by up to MaxExt more characters
ExtChars == {"o", ".", "x"}

Extensions(maxExt) == UNION {[1..n -> ExtChars] : n \in 0..maxExt}

ColourSigs(maxExt) ==
    UNION {{SubSeq(prefix_to_colour[i].prefix, 1, k) \o e :
               k \in 0..Len(prefix_to_colour[i].prefix),
               e \in Extensions(maxExt)} :
           i \in 1..Len(prefix_to_colour)}

ColourFiles(maxExt) ==
    {<<MkLine(0, s, <<"1">>)>> : s \in ColourSigs(maxExt)}
    \cup {<<MkLine(0, s, <<"1">>), MkLine(INDENT_SPACES, <<"x">>, <<"0">>)>> :
            s \in {oracle \o <<".", "x">>, org_jboss \o <<".", "x">>}}

\* ---------------------------------------------------------------- actions

InitWith(files) ==
    /\ file \in files
    /\ pos = 0
    /\ heap = <<>>
    /\ stack = <<>>
    /\ call_forest = CallForest(Filename)
    /\ renderers = EmptyBag
    /\ pc = "parse"
    /\ error = "none"

\* JmcCallForestParser.process_line on the next line of the file.  An empty
\* stack under a line of depth > 0 makes top() raise IndexError, which main()
\* does not catch.
ProcessLine ==
    /\ pc = "parse"
    /\ pos < Len(file)
    /\ LET line == file[pos + 1]
           d == depth_below_root(line)
           ctn == Len(heap) + 1
           allocated == Append(heap, create_call_tree_node(line))
           dropped == drop_to(stack, d)
       IN /\ pos' = pos + 1
          /\ IF d = 0
             THEN /\ call_forest' = add_root(call_forest, ctn)
                  /\ heap' = allocated
                  /\ stack' = push(dropped, ctn)
                  /\ UNCHANGED <<pc, error>>
             ELSE IF dropped = <<>>
             THEN /\ heap' = allocated
                  /\ stack' = dropped
                  /\ pc' = "exit"
                  /\ error' = "IndexError"
                  /\ UNCHANGED call_forest
             ELSE /\ heap' = add_child(allocated, top(dropped), ctn)
                  /\ stack' = push(dropped, ctn)
                  /\ UNCHANGED <<call_forest, pc, error>>
    /\ UNCHANGED <<file, renderers>>

\* main() once parse() has returned: build the renderer for the parsed forest,
\* render it and enter tk.mainloop().  A ZeroDivisionError in the constructor
\* is not caught and ends the program.
Render ==
    /\ pc = "parse"
    /\ pos = Len(file)
    /\ IF InitRaises(call_forest)
       THEN /\ pc' = "exit"
            /\ error' = "ZeroDivisionError"
            /\ UNCHANGED renderers
       ELSE /\ renderers' = renderers (+) SetToBag(
                   {render(TkFlameGraphRenderer(call_forest, WIDTH, HEIGHT))})
            /\ pc' = "mainloop"
            /\ UNCHANGED error
    /\ UNCHANGED <<file, pos, heap, stack, call_forest>>

\* TkFlameGraphRenderer.zoom_in, bound to the double click on a rectangle of
\* renderer r whose node is new_root.  Tkinter reports an exception raised in
\* a callback and carries on with the main loop.
\* the zoomed forest named after the originating forest instead of the node
zoom_in_forest_same_name(r, new_root) ==
    add_root(CallForest(r.call_forest.name), new_root)

\* new_call_forest of zoom_in
zoom_in_forest(r, new_root) ==
    add_root(CallForest(heap[new_root].signature), new_root)

ZoomIn(r, new_root) ==
    /\ pc = "mainloop"
    /\ BagCardinality(renderers) <= MaxZoom
    /\ r \in BagToSet(renderers)
    /\ new_root \in Rendered(r)
    /\ LET new_call_forest == zoom_in_forest(r, new_root)
       IN IF InitRaises(new_call_forest)
          THEN /\ error' = "ZeroDivisionError"
               /\ UNCHANGED renderers
          ELSE /\ renderers' = renderers (+) SetToBag(
                      {render(TkFlameGraphRenderer(new_call_forest,
                                                   r.width, r.height))})
               /\ UNCHANGED error
    /\ UNCHANGED <<file, pos, heap, stack, call_forest, pc>>

Next ==
    \/ ProcessLine
    \/ Render
    \/ \E r \in BagToSet(renderers) : \E n \in Rendered(r) : ZoomIn(r, n)

Init == InitWith(LayoutFiles(MaxNodes, MaxSamples))

Spec == Init /\ [][Next]_vars

InitParser == InitWith(ParseFiles(MaxLines, MaxIndent))

SpecParser == InitParser /\ [][Next]_vars

InitColours == InitWith(ColourFiles(MaxExt))

SpecColours == InitColours /\ [][Next]_vars

\* ------------------------------------------------ vocabulary of the claims

\* line i of the file, once consumed, created heap[i]
Nodes == 1..Len(heap)

Depth(i) == depth_below_root(file[i])

\* the depths decoded from the consumed lines
Depths == [i \in 1..pos |-> Depth(i)]

\* the nodes that list n among their children
Parents(n) == {p \in Nodes : \E k \in 1..Len(heap[p].children) :
                                 heap[p].children[k] = n}

\* length of the parent chain from n up to a node without parent
RECURSIVE AncestorCount(_)
AncestorCount(n) ==
    IF Parents(n) = {} THEN 0
    ELSE 1 + AncestorCount(CHOOSE p \in Parents(n) : TRUE)

\* the node without parent that the parent chain of n ends in
RECURSIVE RootOf(_)
RootOf(n) ==
    IF Parents(n) = {} THEN n ELSE RootOf(CHOOSE p \in Parents(n) : TRUE)

IsRoot(n) == \E k \in 1..Len(call_forest.roots) : call_forest.roots[k] = n

\* pre-order traversal, roots and children in list order
RECURSIVE Preorder(_)
Preorder(ns) ==
    IF ns = <<>> THEN <<>>
    ELSE <<Head(ns)>> \o Preorder(heap[Head(ns)].children)
         \o Preorder(Tail(ns))

\* the elements of a set of numbers in ascending order
Ascending(S) ==
    [i \in 1..Cardinality(S) |->
        CHOOSE x \in S : Cardinality({y \in S : y < x}) = i - 1]

\* the lines one level below line n that follow it before the next line at
\* the level of n or above; d lists the depths of the consumed lines
LinesBelow(d, n) ==
    {j \in (n + 1)..Len(d) :
        /\ d[j] = d[n] + 1
        /\ \A k \in (n + 1)..j : d[k] > d[n]}

\* the size of the ancestor stack when line i is processed
RECURSIVE StackSizeBefore(_)
StackSizeBefore(i) ==
    IF i = 1 THEN 0
    ELSE Min(Depth(i - 1), StackSizeBefore(i - 1)) + 1

Views == BagToSet(renderers)

RectOf(r, n) == r.canvas[CHOOSE i \in 1..Len(r.canvas) : r.canvas[i].node = n]

RectWidth(r, n) == RectOf(r, n).bbox.right - RectOf(r, n).bbox.left

ChildrenOf(n) == {heap[n].children[k] : k \in 1..Len(heap[n].children)}

\* the sum of f[x] over the x in S
RECURSIVE SumOver(_, _)
SumOver(S, f) ==
    IF S = {} THEN 0
    ELSE LET x == CHOOSE y \in S : TRUE IN f[x] + SumOver(S \ {x}, f)

SamplesOf(n) == heap[n].samples

\* the samples, and the widths on r's canvas, of the nodes in S
SamplesIn(S) == SumOver(S, [c \in S |-> SamplesOf(c)])

WidthsIn(r, S) == SumOver(S, [c \in S |-> RectWidth(r, c)])

\* the position of n's rectangle on r's canvas (creation order)
CanvasIndex(r, n) == CHOOSE i \in 1..Len(r.canvas) : r.canvas[i].node = n

\* the siblings of c under n whose rectangle r drew before c's
PlacedBefore(r, n, c) ==
    {d \in ChildrenOf(n) : CanvasIndex(r, d) < CanvasIndex(r, c)}

RootSet(r) == {r.call_forest.roots[k] : k \in 1..Len(r.call_forest.roots)}

\* AncestorCount as a table, for the formulas that use it often
Ancestors == [n \in Nodes |-> AncestorCount(n)]

\* is p a prefix of s, character by character
IsPrefix(p, s) ==
    /\ Len(p) <= Len(s)
    /\ \A i \in 1..Len(p) : s[i] = p[i]

\* ------------------------------------------------------------------ claims

\* C1: for a well-formed sequence of consumed lines, every line's node is in
\* the forest, its parent chain has as many ancestors as the depth decoded
\* from its line, and the chain ends in a root of the forest.
C1_DepthRoundTrip ==
    LET d == Depths
    IN WellFormedDepths(d) =>
        /\ Len(heap) = pos
        /\ \A n \in Nodes :
              /\ AncestorCount(n) = d[n]
              /\ IsRoot(RootOf(n))
              /\ Cardinality(Parents(n)) <= 1

\* a well-formed report read to its end that goes down to depth 2 and back
C1_Witness ==
    /\ pos = Len(file)
    /\ pos = 4
    /\ WellFormed(file)
    /\ Depth(3) = 2
    /\ Depth(4) = 1
    /\ AncestorCount(3) = 2

\* C2: for a well-formed sequence of consumed lines, each node's children
\* are the lines one level below it that follow it before the next line at
\* its level or above, in input order; and the pre-order traversal of the
\* forest visits the nodes in input line order.
C2_OrderPreserved ==
    LET d == Depths
    IN WellFormedDepths(d) =>
        /\ \A n \in Nodes : heap[n].children = Ascending(LinesBelow(d, n))
        /\ Preorder(call_forest.roots) = [i \in 1..pos |-> i]

\* a node with two children, the first of which has a child of its own
C2_Witness ==
    /\ pos = Len(file)
    /\ WellFormed(file)
    /\ \E n \in Nodes :
          /\ Len(heap[n].children) = 2
          /\ heap[heap[n].children[1]].children # <<>>

\* C3: a consumed line whose depth exceeds the ancestor stack's size ends the
\* parse in a fatal error, and its node is neither a root nor anyone's child.
C3_DepthJumpIsFatal ==
    \A i \in 1..pos :
        Depth(i) > StackSizeBefore(i) =>
            /\ pc = "exit"
            /\ error # "none"
            /\ ~IsRoot(i)
            /\ Parents(i) = {}

\* the rectangles r drew, by node
Boxes(r) == [n \in Rendered(r) |-> RectOf(r, n).bbox]

\* C4 as claimed: in every layout, for every node, the children's widths sum
\* to at most the node's width and no child sticks out of its parent.
C4_ContainmentAnyForest ==
    \A r \in Views :
        LET box == Boxes(r)
        IN \A n \in Rendered(r) :
            /\ WidthsIn(r, ChildrenOf(n)) <= box[n].right - box[n].left
            /\ \A c \in ChildrenOf(n) :
                  /\ box[c].left >= box[n].left
                  /\ box[c].right <= box[n].right

\* C4, amended: in every layout every child is drawn with width
\* x_scale * samples at its parent's x plus the widths of the siblings drawn
\* before it, never left of its parent; and for a node whose children's samples
\* sum to at most its own samples, the children's widths sum to at most its
\* width and no child ends right of it.
C4_Containment ==
    \A r \in Views :
        LET box == Boxes(r)
        IN \A n \in Rendered(r) :
            /\ \A c \in ChildrenOf(n) :
                  /\ c \in Rendered(r)
                  /\ box[c].right - box[c].left = r.x_scale.num * SamplesOf(c)
                  /\ box[c].left =
                        box[n].left + WidthsIn(r, PlacedBefore(r, n, c))
                  /\ box[c].left >= box[n].left
            /\ SamplesIn(ChildrenOf(n)) <= SamplesOf(n) =>
                  /\ WidthsIn(r, ChildrenOf(n)) <= box[n].right - box[n].left
                  /\ \A c \in ChildrenOf(n) : box[c].right <= box[n].right

\* a laid-out node with two children, one of them of positive width, that
\* fill it exactly
C4_Witness ==
    \E r \in Views : \E n \in Rendered(r) :
        /\ Cardinality(ChildrenOf(n)) = 2
        /\ \E c \in ChildrenOf(n) : RectWidth(r, c) > 0
        /\ SamplesIn(ChildrenOf(n)) = SamplesOf(n)

\* C5: the root rectangles tile [0, W]: the first root drawn starts at 0,
\* each root starts where the roots drawn before it end, the widths sum to W
\* and the last root ends at W.  (x is in units of 1/x_scale.den.)
C5_RootsTileWidth ==
    \A r \in Views :
        LET first == r.canvas[1].node
            last == CHOOSE n \in RootSet(r) :
                        \A m \in RootSet(r) : CanvasIndex(r, m) <= CanvasIndex(r, n)
        IN /\ RectOf(r, first).bbox.left = 0
           /\ \A n \in RootSet(r) :
                 RectOf(r, n).bbox.left =
                    WidthsIn(r, {m \in RootSet(r) :
                                    CanvasIndex(r, m) < CanvasIndex(r, n)})
           /\ WidthsIn(r, RootSet(r))
                 = r.width * r.x_scale.den
           /\ RectOf(r, last).bbox.right = r.width * r.x_scale.den

\* the nodes of the tree rooted at n
Subtree(n) == LET p == Preorder(<<n>>) IN {p[i] : i \in 1..Len(p)}

MaxIn(S) == CHOOSE x \in S : \A y \in S : y <= x

\* the number of nodes on the longest path from n down to a leaf
LongestPath(n) ==
    MaxIn({AncestorCount(m) - AncestorCount(n) + 1 : m \in Subtree(n)})

LongestPaths ==
    LET ancestors == Ancestors
    IN [n \in Nodes |->
          MaxIn({ancestors[m] - ancestors[n] + 1 : m \in Subtree(n)})]

\* C6 as claimed: CallForest.depth() is 0 without roots and otherwise
\* 1 + the greatest depth of a root, a leaf having depth 1.
C6_DepthIsOnePlusMax ==
    \A r \in Views :
        CallForest_depth(r.call_forest) =
            1 + MaxIn({LongestPath(n) : n \in RootSet(r)})

\* C6, amended: CallForest.depth() is 0 without roots and otherwise the
\* greatest depth of a root (not one more), where a node's depth is the number
\* of nodes on its longest path down to a leaf (1 for a leaf); and
\* CallForest.samples() is the sum of the samples of the roots alone: for the
\* parsed forest the counts of the lines at depth 0, for a zoomed forest the
\* samples of its root.  The renderer's scales divide by exactly these two
\* numbers.
C6_DepthAndSamples ==
    LET longest == LongestPaths
    IN /\ \A n \in Nodes : CallTreeNode_depth(n) = longest[n]
       /\ CallForest_depth(call_forest) =
             IF call_forest.roots = <<>> THEN 0
             ELSE MaxIn({longest[call_forest.roots[k]] :
                           k \in 1..Len(call_forest.roots)})
       /\ pc = "parse" =>
             CallForest_samples(call_forest) =
                LET top0 == {i \in 1..pos : Depth(i) = 0}
                IN SumOver(top0, [i \in top0 |-> samples(file[i])])
       /\ \A r \in Views :
             /\ CallForest_depth(r.call_forest) =
                   MaxIn({longest[n] : n \in RootSet(r)})
             /\ r.y_scale.den = CallForest_depth(r.call_forest)
             /\ CallForest_samples(r.call_forest) = SamplesIn(RootSet(r))
             /\ r.x_scale.den = CallForest_samples(r.call_forest)

\* a rendered forest of a childless root and a root with a child, both with
\* samples
C6_Witness ==
    \E r \in Views :
        /\ Len(r.call_forest.roots) = 2
        /\ r.y_scale.den = 2
        /\ \A n \in RootSet(r) : SamplesOf(n) > 0
        /\ \E n \in RootSet(r) : heap[n].children = <<>>
        /\ \E n \in Nodes : SamplesOf(n) > 0 /\ Parents(n) # {}

\* C7: a layout asked for a forest whose samples total 0, by main() or by a
\* zoom, is rejected with an EmptyForest error and adds no renderer.
C7_ZeroSamplesRejected ==
    [][/\ (pc = "parse" /\ pos = Len(file)
              /\ CallForest_samples(call_forest) = 0)
          => (error' = "EmptyForest" /\ renderers' = renderers)
       /\ \A r \in Views : \A n \in Rendered(r) :
             (ZoomIn(r, n) /\ SamplesOf(n) = 0)
             => (error' = "EmptyForest" /\ renderers' = renderers)]_vars

\* what a zoom_in step on node n of renderer r leaves and adds; laysOut says
\* whether a new laid-out renderer is required
ZoomPost(r, n, laysOut) ==
    /\ heap' = heap
    /\ call_forest' = call_forest
    /\ \A v \in Views : CopiesIn(v, renderers') >= CopiesIn(v, renderers)
    /\ IF laysOut
       THEN \E v \in BagToSet(renderers') :
               /\ renderers' = renderers (+) SetToBag({v})
               /\ v.call_forest.name = heap[n].signature
               /\ v.call_forest.roots = <<n>>
               /\ v.width = r.width
               /\ v.height = r.height
               /\ v.canvas # <<>>
               /\ v.canvas[1].node = n
               /\ Rendered(v) = Subtree(n)
       ELSE renderers' = renderers /\ error' = "ZeroDivisionError"

\* C8 as claimed: every zoom on a rendered node makes a forest named after
\* the node with the node as its only root and lays it out with the
\* originating view's width and height, and changes nothing that existed.
C8_EveryZoomLaysOut ==
    [][\A r \in Views : \A n \in Rendered(r) :
          ZoomIn(r, n) => ZoomPost(r, n, TRUE)]_vars

\* C8, amended: every zoom on a rendered node N with samples > 0 adds one
\* renderer whose forest is named N.signature and has the roots [N] (the same
\* node), laid out with the originating view's width and height; a zoom on a
\* node with samples 0 raises ZeroDivisionError and adds no renderer; either
\* way the parsed forest, every node and every existing renderer stay as
\* they were.
C8_ZoomFrame ==
    [][\A r \in Views : \A n \in Rendered(r) :
          ZoomIn(r, n) => ZoomPost(r, n, SamplesOf(n) > 0)]_vars

\* a zoomed view of a node that is not a root, and a second zoomed view of
\* one of that node's children
C8_Witness ==
    \E v \in Views : \E w \in Views :
        /\ v.call_forest.name # Filename
        /\ Parents(v.call_forest.roots[1]) # {}
        /\ w.call_forest.roots[1] \in ChildrenOf(v.call_forest.roots[1])
        /\ w.width = WIDTH
        /\ w.height = HEIGHT

\* C9: every rectangle is filled with the colour of the first rule whose
\* prefix starts the node's signature, "white" when there is none; rectangles
\* of equal signatures have equal fills.
C9_FirstRuleWins ==
    /\ \A r \in Views : \A i \in 1..Len(r.canvas) :
          LET sig == heap[r.canvas[i].node].signature
              hit == {k \in 1..Len(prefix_to_colour) :
                         IsPrefix(prefix_to_colour[k].prefix, sig)}
          IN r.canvas[i].fill =
                IF hit = {} THEN "white"
                ELSE prefix_to_colour[CHOOSE k \in hit :
                                         \A j \in hit : k <= j].colour
    /\ \A r \in Views : \A v \in Views :
          \A i \in 1..Len(r.canvas) : \A j \in 1..Len(v.canvas) :
             heap[r.canvas[i].node].signature = heap[v.canvas[j].node].signature
             => r.canvas[i].fill = v.canvas[j].fill

\* a rectangle filled by the last rule, for a signature longer than its
\* prefix, beside a rectangle no rule matches
C9_Witness ==
    \E r \in Views :
        /\ \E i \in 1..Len(r.canvas) :
              /\ r.canvas[i].fill = "red"
              /\ Len(heap[r.canvas[i].node].signature) > Len(org_jboss)
        /\ \E i \in 1..Len(r.canvas) : r.canvas[i].fill = "white"

====
